---------------------------- MODULE Spec2Model ----------------------------
(***************************************************************************)
(* State-machine model of the two-pass indexing engine                     *)
(* (backend/indexing.py), the BM25 search engine                           *)
(* (backend/search_engine.py) and the HTTP handlers that own the two       *)
(* global engine references (backend/main.py).                             *)
(*                                                                         *)
(* Texts are sequences of one-character strings, so that the regular       *)
(* expressions of the normalizer are modelled character by character.      *)
(***************************************************************************)
EXTENDS Integers, Sequences, FiniteSets, TLC

VARIABLES
    language,        \* IndexingEngine.language (stemmer / stopword selector)
    batch_size,      \* IndexingEngine.batch_size
    eng,             \* the IndexingEngine the caller holds (main.py: global indexing_engine), or None
    se,              \* the SearchEngine the caller holds (main.py: global search_engine), or None
    disk,            \* files under index_path
    pc,              \* position inside process_corpus / build_index / reload_system
    monitor,         \* IndexingEngine(enable_monitoring=...) and whether psutil could be imported
    frame,           \* locals of the running process_corpus call
    outcome,         \* what the last completed call returned, with the values it started from
    verify,          \* rebuild_index.py: indexing_engine_verify after load_index
    builds,          \* number of process_corpus calls started
    reply,           \* what the last search call or request returned
    req,             \* main.py: position of a GET /search request in its handler
    raw,             \* a raw text, as the fragments typed so far
    normalized       \* what process_document and _process_query made of raw

vars == <<language, batch_size, monitor, eng, se, disk, pc, frame, outcome, verify,
          builds, reply, req, raw, normalized>>

\* the variables the calls on the two engines leave alone
otherVars == <<req, raw, normalized>>

(***************************************************************************)
(* Characters and words                                                    *)
(***************************************************************************)
Whitespace == {" "}
Punctuation == {".", ":", "/"}

IsSpace(c) == c \in Whitespace
\* \w : everything of the model alphabet that is neither whitespace nor punctuation
IsWord(c) == c \notin Whitespace /\ c \notin Punctuation

W_http == <<"h", "t", "t", "p">>
W_www  == <<"w", "w", "w">>
W_the  == <<"t", "h", "e">>
W_on   == <<"o", "n">>
W_los  == <<"l", "o", "s">>
W_cat  == <<"c", "a", "t">>
W_cats == <<"c", "a", "t", "s">>
W_Cats == <<"C", "a", "t", "s">>
W_dog  == <<"d", "o", "g">>
W_ox   == <<"o", "x">>
W_emu  == <<"e", "m", "u">>

RECURSIVE Concat(_)
Concat(ss) == IF ss = <<>> THEN <<>> ELSE Head(ss) \o Concat(Tail(ss))

(***************************************************************************)
(* Text normalization                                                      *)
(***************************************************************************)
\* str.lower() on the model alphabet
LowerChar(c) == IF c = "C" THEN "c" ELSE c
Lower(t) == [i \in 1..Len(t) |-> LowerChar(t[i])]

HasAt(t, i, w) == i + Len(w) - 1 <= Len(t) /\ SubSeq(t, i, i + Len(w) - 1) = w

\* last index of the run of non-space characters starting at j (j-1 if none)
RECURSIVE NonSpaceRunEnd(_, _)
NonSpaceRunEnd(t, j) ==
    IF j <= Len(t) /\ ~IsSpace(t[j]) THEN NonSpaceRunEnd(t, j + 1) ELSE j - 1

\* http\S+ at position i: "http" and at least one non-space character
MatchHttp(t, i) == HasAt(t, i, W_http) /\ i + 4 <= Len(t) /\ ~IsSpace(t[i + 4])
\* www.\S+ at position i: "www", any one character, at least one non-space character
MatchWww(t, i) == HasAt(t, i, W_www) /\ i + 4 <= Len(t) /\ ~IsSpace(t[i + 4])

\* re.sub(r'http\S+|www.\S+', '', text): leftmost matches, each greedy to the
\* end of its non-space run, removed
RECURSIVE StripUrlsFrom(_, _)
StripUrlsFrom(t, i) ==
    IF i > Len(t) THEN <<>>
    ELSE IF MatchHttp(t, i) \/ MatchWww(t, i)
         THEN StripUrlsFrom(t, NonSpaceRunEnd(t, i + 4) + 1)
         ELSE <<t[i]>> \o StripUrlsFrom(t, i + 1)
StripUrls(t) == StripUrlsFrom(t, 1)

\* re.sub(r'[^\w\s]', ' ', text)
ReplacePunct(t) ==
    [i \in 1..Len(t) |-> IF IsWord(t[i]) \/ IsSpace(t[i]) THEN t[i] ELSE " "]

\* re.sub(r'\s+', ' ', text)
RECURSIVE CollapseSpaces(_)
CollapseSpaces(t) ==
    IF t = <<>> THEN <<>>
    ELSE IF IsSpace(Head(t)) /\ Len(t) > 1 /\ IsSpace(t[2])
         THEN CollapseSpaces(Tail(t))
         ELSE (IF IsSpace(Head(t)) THEN <<" ">> ELSE <<Head(t)>>)
              \o CollapseSpaces(Tail(t))

\* str.strip()
RECURSIVE StripLeft(_)
StripLeft(t) == IF t # <<>> /\ IsSpace(Head(t)) THEN StripLeft(Tail(t)) ELSE t
RECURSIVE StripRight(_)
StripRight(t) ==
    IF t # <<>> /\ IsSpace(t[Len(t)]) THEN StripRight(SubSeq(t, 1, Len(t) - 1)) ELSE t
Strip(t) == StripRight(StripLeft(t))

\* word_tokenize on text that holds only word characters and single spaces,
\* and its fallback text.split(): the maximal runs of non-space characters
RECURSIVE Tokenize(_)
Tokenize(t) ==
    LET s == StripLeft(t) IN
    IF s = <<>> THEN <<>>
    ELSE LET e == NonSpaceRunEnd(s, 1) IN
         <<SubSeq(s, 1, e)>> \o Tokenize(SubSeq(s, e + 1, Len(s)))

\* stopwords.words(language), restricted to the words of the model
StopWords(lang) ==
    IF lang = "english" THEN {W_the, W_on} ELSE {W_los}

Vowels == {"a", "e", "i", "o", "u", "y"}

\* SnowballStemmer(language).stem on the words of the model: the English
\* stemmer deletes a final "s" when the part before it holds a vowel that is
\* not its last letter (step 1a); the Spanish stemmer leaves these words alone
Stem(lang, w) ==
    IF lang = "english" /\ Len(w) > 2 /\ w[Len(w)] = "s"
       /\ w[Len(w) - 1] \notin {"s", "u"}
       /\ \E i \in 1..(Len(w) - 2) : w[i] \in Vowels
    THEN SubSeq(w, 1, Len(w) - 1)
    ELSE w

\* tokens = [t for t in tokens if t not in stop_words and len(t) > 2]
KeepToken(tok, stop) == tok \notin stop /\ Len(tok) > 2
FilterTokens(toks, stop) == SelectSeq(toks, LAMBDA tok : KeepToken(tok, stop))

StemAll(lang, toks) == [i \in 1..Len(toks) |-> Stem(lang, toks[i])]

\* process_document's normalization of a str text, under the engine's language
ProcessDocument(lang, text) ==
    LET t1 == Lower(text)
        t2 == StripUrls(t1)
        t3 == ReplacePunct(t2)
        t4 == Strip(CollapseSpaces(t3))
    IN  StemAll(lang, FilterTokens(Tokenize(t4), StopWords(lang)))

\* a _process_query that keeps the stopwords
ProcessQueryKeepingStopwords(query) ==
    LET q1 == Lower(query)
        q2 == ReplacePunct(q1)
        q3 == Strip(CollapseSpaces(q2))
        toks == FilterTokens(Tokenize(q3), {})
    IN  IF toks = <<>> THEN <<>> ELSE StemAll("english", toks)

\* SearchEngine._process_query: English stemmer and stopwords whatever the
\* engine's language, no URL stripping
ProcessQuery(query) ==
    LET q1 == Lower(query)
        q2 == ReplacePunct(q1)
        q3 == Strip(CollapseSpaces(q2))
        toks == FilterTokens(Tokenize(q3), StopWords("english"))
    IN  IF toks = <<>> THEN <<>> ELSE StemAll("english", toks)


(***************************************************************************)
(* Dictionaries                                                            *)
(***************************************************************************)
EmptyMap == <<>>

\* d[k] = v
Put(d, k, v) == [x \in (DOMAIN d) \cup {k} |-> IF x = k THEN v ELSE d[x]]

\* {**a, **b}
Merge(a, b) == [x \in (DOMAIN a) \cup (DOMAIN b) |-> IF x \in DOMAIN b THEN b[x] ELSE a[x]]

\* d.get(k, {})
GetOrEmpty(d, k) == IF k \in DOMAIN d THEN d[k] ELSE EmptyMap

TermSet(toks) == {toks[i] : i \in 1..Len(toks)}
CountOf(toks, term) == Cardinality({i \in 1..Len(toks) : toks[i] = term})

(***************************************************************************)
(* Inputs of the model                                                     *)
(***************************************************************************)
MaxBuilds == 2
MaxBatch == 2
MaxFrags == 3

DocIds == {"d1", "d2"}
Languages == {"english", "spanish"}

\* a document's content as corpus_handler.load_corpus hands it over: a str,
\* or any other truthy JSON value of the "content" key
Str(t) == [isstr |-> TRUE, chars |-> t]
NotStr == [isstr |-> FALSE, chars |-> <<>>]

Text_cats == W_Cats \o <<" ">> \o W_cat
Text_dog  == W_the \o <<" ">> \o W_dog
Text_stop == W_the \o <<" ">> \o W_on

\* corpus.items(): documents with distinct ids, in the dict's order
Corpus_empty == <<>>
Corpus_cats  == <<<<"d1", Str(Text_cats)>>>>
Corpus_dog   == <<<<"d2", Str(Text_dog)>>>>
Corpus_stop  == <<<<"d1", Str(Text_stop)>>>>
Corpus_both  == <<<<"d1", Str(Text_cats)>>, <<"d2", Str(Text_dog)>>>>
Corpus_rev   == <<<<"d2", Str(Text_dog)>>, <<"d1", Str(Text_cats)>>>>
Corpus_bad   == <<<<"d1", Str(Text_cats)>>, <<"d2", NotStr>>>>

Corpora ==
    {Corpus_empty, Corpus_cats, Corpus_dog, Corpus_stop, Corpus_both, Corpus_rev,
     Corpus_bad}

\* corpus_metadata: none, or a title for d1 only
MetaMaps == {EmptyMap, [d \in {"d1"} |-> [title |-> "A"]]}

\* corpus_metadata whose entry for d1 may have a 'token_count' key of its own
MetaMapsWithCount == MetaMaps \cup {[d \in {"d1"} |-> [token_count |-> 7]]}

(***************************************************************************)
(* IndexingEngine                                                          *)
(***************************************************************************)
\* IndexingEngine.__init__: the data structures of a new engine
FreshEngine ==
    [alive |-> TRUE, inverted_index |-> EmptyMap, document_index |-> EmptyMap,
     idf |-> EmptyMap, total_documents |-> 0]

\* a reference that is None
NoEngine ==
    [alive |-> FALSE, inverted_index |-> EmptyMap, document_index |-> EmptyMap,
     idf |-> EmptyMap, total_documents |-> 0]

\* math.log, in units of 1/1000, on the integers the model reaches
LnScaled(n) ==
    CASE n = 1 -> 0
      [] n = 2 -> 693
      [] n = 3 -> 1099
      [] n = 4 -> 1386
      [] n = 5 -> 1609
      [] n = 6 -> 1792
      [] OTHER -> 1946

\* math.log((1 + N) / (1 + df)) + 1, in units of 1/1000
IdfValue(n, df) ==
    IF df > 0 THEN LnScaled(1 + n) - LnScaled(1 + df) + 1000 ELSE 0

\* pool.map over a batch raises when process_document raises for one of its
\* documents: text.lower() on a value that is not a str
BatchRaises(batch) == \E i \in 1..Len(batch) : ~batch[i][2].isstr

\* a fold that adds to document_frequency every occurrence of a term
RECURSIVE Pass1FoldCountingOccurrences(_, _, _, _, _)
Pass1FoldCountingOccurrences(lang, batch, meta, docidx, df) ==
    IF batch = <<>> THEN [document_index |-> docidx, document_frequency |-> df]
    ELSE LET doc_id == Head(batch)[1]
             tokens == ProcessDocument(lang, Head(batch)[2].chars)
             rec == Merge([processed |-> TRUE, token_count |-> Len(tokens)],
                          GetOrEmpty(meta, doc_id))
             df2 == [t \in (DOMAIN df) \cup TermSet(tokens) |->
                        (IF t \in DOMAIN df THEN df[t] ELSE 0)
                        + Cardinality({i \in 1..Len(tokens) : tokens[i] = t})]
         IN  Pass1FoldCountingOccurrences(lang, Tail(batch), meta,
                                          Put(docidx, doc_id, rec), df2)

\* lines 205-216: fold one batch's results, in order, into document_index
\* and the run's document_frequency
RECURSIVE Pass1Fold(_, _, _, _, _)
Pass1Fold(lang, batch, meta, docidx, df) ==
    IF batch = <<>> THEN [document_index |-> docidx, document_frequency |-> df]
    ELSE LET doc_id == Head(batch)[1]
             tokens == ProcessDocument(lang, Head(batch)[2].chars)
             rec == Merge([processed |-> TRUE, token_count |-> Len(tokens)],
                          GetOrEmpty(meta, doc_id))
             df2 == [t \in (DOMAIN df) \cup TermSet(tokens) |->
                        (IF t \in DOMAIN df THEN df[t] ELSE 0)
                        + (IF t \in TermSet(tokens) THEN 1 ELSE 0)]
         IN  Pass1Fold(lang, Tail(batch), meta, Put(docidx, doc_id, rec), df2)

\* an IDF table with a minimum document frequency of 2
ComputeIdfWithMinDf(idf, df, n) ==
    [t \in (DOMAIN idf) \cup {u \in DOMAIN df : df[u] >= 2} |->
        IF t \in DOMAIN df THEN IdfValue(n, df[t]) ELSE idf[t]]

\* lines 234-243: self.idf[term] = ... for every term of document_frequency
ComputeIdf(idf, df, n) ==
    [t \in (DOMAIN idf) \cup (DOMAIN df) |->
        IF t \in DOMAIN df THEN IdfValue(n, df[t]) ELSE idf[t]]

\* a posting list is a dict doc_id -> freq, kept with its insertion order:
\* a sequence of <<doc_id, freq>> with distinct doc_ids
PostingDocs(pl) == {pl[i][1] : i \in 1..Len(pl)}
PostingFreq(pl, doc) == pl[CHOOSE i \in 1..Len(pl) : pl[i][1] = doc][2]
\* pl[doc_id] = freq
PutPosting(pl, doc, freq) ==
    IF doc \in PostingDocs(pl)
    THEN [i \in 1..Len(pl) |-> IF pl[i][1] = doc THEN <<doc, freq>> ELSE pl[i]]
    ELSE Append(pl, <<doc, freq>>)

\* lines 264-268: self.inverted_index[term][doc_id] = freq
RECURSIVE Pass2Fold(_, _, _)
Pass2Fold(lang, batch, inv) ==
    IF batch = <<>> THEN inv
    ELSE LET doc_id == Head(batch)[1]
             tokens == ProcessDocument(lang, Head(batch)[2].chars)
             inv2 == [t \in (DOMAIN inv) \cup TermSet(tokens) |->
                        IF t \in TermSet(tokens)
                        THEN PutPosting(GetOrEmpty(inv, t), doc_id, CountOf(tokens, t))
                        ELSE inv[t]]
         IN  Pass2Fold(lang, Tail(batch), inv2)

(***************************************************************************)
(* Files under index_path                                                  *)
(***************************************************************************)
\* a path that does not exist
NoFile ==
    [exists |-> FALSE, readable |-> FALSE, keys |-> {}, postings_is_dict |-> FALSE,
     inverted_index |-> EmptyMap, document_index |-> EmptyMap, idf |-> EmptyMap,
     total_documents |-> 0, vocabulary_size |-> 0, document_count |-> 0,
     index_entries |-> 0]

EmptyDisk ==
    [index_pkl |-> NoFile, index_metadata_json |-> NoFile, idf_json |-> NoFile,
     index_json |-> NoFile]

\* an index_data that leaves the IDF table out
IndexPickleWithoutIdf(e) ==
    [exists |-> TRUE, readable |-> TRUE,
     keys |-> {"inverted_index", "vocabulary_size", "document_count",
               "document_index", "total_documents"},
     postings_is_dict |-> TRUE,
     inverted_index |-> e.inverted_index,
     document_index |-> e.document_index,
     idf |-> EmptyMap,
     total_documents |-> e.total_documents,
     vocabulary_size |-> Cardinality(DOMAIN e.idf),
     document_count |-> Cardinality(DOMAIN e.document_index),
     index_entries |-> 0]

\* _save_index, lines 291-301: the pickled index_data
IndexPickle(e) ==
    [exists |-> TRUE, readable |-> TRUE,
     keys |-> {"inverted_index", "vocabulary_size", "document_count",
               "document_index", "idf", "total_documents"},
     postings_is_dict |-> TRUE,
     inverted_index |-> e.inverted_index,
     document_index |-> e.document_index,
     idf |-> e.idf,
     total_documents |-> e.total_documents,
     vocabulary_size |-> Cardinality(DOMAIN e.idf),
     document_count |-> Cardinality(DOMAIN e.document_index),
     index_entries |-> 0]

\* _save_index, lines 306-315: the JSON sidecar
IndexMetadataJson(e) ==
    [NoFile EXCEPT !.exists = TRUE, !.readable = TRUE,
                   !.keys = {"vocabulary_size", "document_count", "index_entries", "status"},
                   !.vocabulary_size = Cardinality(DOMAIN e.idf),
                   !.document_count = Cardinality(DOMAIN e.document_index),
                   !.index_entries = Cardinality(DOMAIN e.inverted_index)]

\* _save_idf: json.dump(self.idf)
IdfJson(e) ==
    [NoFile EXCEPT !.exists = TRUE, !.readable = TRUE, !.keys = DOMAIN e.idf,
                   !.idf = e.idf]

SaveIndex(d, e) ==
    [d EXCEPT !.index_pkl = IndexPickle(e), !.index_metadata_json = IndexMetadataJson(e)]

\* a _save_idf that writes nothing
SaveIdfSkipped(d, e) == d

\* a _save_idf that writes the snapshot files as well
SaveIdfAndSnapshot(d, e) == SaveIndex([d EXCEPT !.idf_json = IdfJson(e)], e)

\* _save_idf, lines 319-323
SaveIdf(d, e) == [d EXCEPT !.idf_json = IdfJson(e)]

\* load_index, lines 348-351: the postings are copied term by term, posting
\* by posting, so a term with no posting gets no entry
CopyPostings(inv) ==
    [t \in {u \in DOMAIN inv : inv[u] # <<>>} |-> inv[t]]

\* a load that takes the postings of the file and keeps the engine's
\* document_index
LoadPostingsOnly(e, d) ==
    LET file == IF d.index_pkl.exists THEN d.index_pkl ELSE d.index_json IN
    IF ~file.exists \/ ~file.readable
    THEN [ok |-> FALSE, eng |-> e, rebound |-> {}]
    ELSE [ok |-> TRUE,
          eng |-> [e EXCEPT !.inverted_index = CopyPostings(file.inverted_index),
                            !.idf = file.idf,
                            !.total_documents = file.total_documents],
          rebound |-> {"inverted_index", "idf"}]

\* load_index on engine e with the files d:
\* [ok: the value returned, eng: the engine afterwards, rebound: the
\*  attributes that were assigned a new object]
LoadIndexOn(e, d) ==
    LET file == IF d.index_pkl.exists THEN d.index_pkl ELSE d.index_json IN
    IF ~file.exists \/ ~file.readable
    THEN [ok |-> FALSE, eng |-> e, rebound |-> {}]
    ELSE IF "inverted_index" \notin file.keys \/ ~file.postings_is_dict
    THEN [ok |-> FALSE, eng |-> [e EXCEPT !.inverted_index = EmptyMap],
          rebound |-> {"inverted_index"}]
    ELSE IF "document_index" \notin file.keys
    THEN [ok |-> FALSE,
          eng |-> [e EXCEPT !.inverted_index = CopyPostings(file.inverted_index)],
          rebound |-> {"inverted_index"}]
    ELSE [ok |-> TRUE,
          eng |-> [e EXCEPT
                     !.inverted_index = CopyPostings(file.inverted_index),
                     !.document_index = file.document_index,
                     !.idf = IF "idf" \in file.keys THEN file.idf ELSE EmptyMap,
                     !.total_documents =
                         IF "total_documents" \in file.keys
                         THEN file.total_documents
                         ELSE Cardinality(DOMAIN file.document_index)],
          rebound |-> {"inverted_index", "document_index", "idf"}]

(***************************************************************************)
(* SearchEngine                                                            *)
(***************************************************************************)
IndexAttrs == {"inverted_index", "idf", "document_index"}

\* a reference that is None
NoSearchEngine ==
    [alive |-> FALSE, shared |-> {}, inverted_index |-> EmptyMap, idf |-> EmptyMap,
     document_index |-> EmptyMap, avgdl |-> [num |-> 1, den |-> 1], total_docs |-> 0]

RECURSIVE SumTokenCounts(_, _)
SumTokenCounts(docidx, ids) ==
    IF ids = {} THEN 0
    ELSE LET d == CHOOSE x \in ids : TRUE
         IN  (IF "token_count" \in DOMAIN docidx[d] THEN docidx[d].token_count ELSE 0)
             + SumTokenCounts(docidx, ids \ {d})

\* _calculate_avgdl: 1 for an empty document_index, else
\* total_tokens / max(1, len(document_index)), kept as a fraction
CalculateAvgdl(docidx) ==
    IF DOMAIN docidx = {} THEN [num |-> 1, den |-> 1]
    ELSE [num |-> SumTokenCounts(docidx, DOMAIN docidx),
          den |-> Cardinality(DOMAIN docidx)]

\* SearchEngine.__init__: the three dictionaries are the engine's own objects
\* (shared), avgdl and total_docs are computed once
SearchEngineOf(e) ==
    [alive |-> TRUE, shared |-> IndexAttrs, inverted_index |-> EmptyMap,
     idf |-> EmptyMap, document_index |-> EmptyMap,
     avgdl |-> CalculateAvgdl(e.document_index),
     total_docs |-> Cardinality(DOMAIN e.document_index)]

\* the dictionary a SearchEngine reads through one of its three references:
\* the engine's current one while the engine still holds that object
SeAttr(s, e, attr) == IF attr \in s.shared THEN e[attr] ELSE s[attr]

\* the engine stops holding the objects named by attrs (it assigns new ones,
\* or the caller's reference moves to another engine): the SearchEngine keeps
\* the old objects with the contents they have
Detach(s, e, attrs) ==
    IF ~s.alive THEN s
    ELSE [s EXCEPT !.shared = s.shared \ attrs,
                   !.inverted_index = IF "inverted_index" \in attrs \cap s.shared
                                      THEN e.inverted_index ELSE s.inverted_index,
                   !.idf = IF "idf" \in attrs \cap s.shared THEN e.idf ELSE s.idf,
                   !.document_index = IF "document_index" \in attrs \cap s.shared
                                      THEN e.document_index ELSE s.document_index]

\* BM25 parameters k1 = 1.5 and b = 0.75 give, with avgdl = num/den,
\*   idf * freq*(k1+1) / (freq + k1*(1 - b + b*doc_len/avgdl))
\*     = idf * 20*freq*num / (8*freq*num + 3*num + 9*doc_len*den)
Bm25Numerator(idfv, freq, avg) == idfv * 20 * freq * avg.num
\* a denominator without the freq term: no saturation
Bm25DenominatorWithoutFreq(freq, doc_len, avg) == 3 * avg.num + 9 * doc_len * avg.den
Bm25Denominator(freq, doc_len, avg) ==
    8 * freq * avg.num + 3 * avg.num + 9 * doc_len * avg.den
Bm25(idfv, freq, doc_len, avg) ==
    Bm25Numerator(idfv, freq, avg) \div Bm25Denominator(freq, doc_len, avg)

\* lines 77-86: one term's posting list added to the running scores
\* acc = [order: doc_ids in the order they were first scored, score, match, raised]
RECURSIVE ScorePostings(_, _, _, _, _, _)
ScorePostings(pl, term, idfv, docidx, avg, acc) ==
    IF pl = <<>> \/ acc.raised THEN acc
    ELSE LET doc == Head(pl)[1]
             freq == Head(pl)[2]
             info == GetOrEmpty(docidx, doc)
             doc_len == IF "token_count" \in DOMAIN info THEN info.token_count ELSE 1
             seen == doc \in DOMAIN acc.score
         IN  IF avg.num = 0
             THEN [acc EXCEPT !.raised = TRUE]     \* doc_len / self.avgdl: ZeroDivisionError
             ELSE ScorePostings(Tail(pl), term, idfv, docidx, avg,
                    [order |-> IF seen THEN acc.order ELSE Append(acc.order, doc),
                     score |-> Put(acc.score, doc,
                                   (IF seen THEN acc.score[doc] ELSE 0)
                                   + Bm25(idfv, freq, doc_len, avg)),
                     match |-> Put(acc.match, doc,
                                   (IF seen THEN acc.match[doc] ELSE {}) \cup {term}),
                     raised |-> FALSE])

\* lines 70-86
RECURSIVE ScoreTerms(_, _, _, _, _, _)
ScoreTerms(terms, inv, idf, docidx, avg, acc) ==
    IF terms = <<>> \/ acc.raised THEN acc
    ELSE LET term == Head(terms) IN
         IF term \notin DOMAIN inv
         THEN ScoreTerms(Tail(terms), inv, idf, docidx, avg, acc)
         ELSE ScoreTerms(Tail(terms), inv, idf, docidx, avg,
                ScorePostings(inv[term], term,
                              IF term \in DOMAIN idf THEN idf[term] ELSE 0,
                              docidx, avg, acc))

MaxOf(S) == CHOOSE x \in S : \A y \in S : y <= x
Max2(a, b) == IF a >= b THEN a ELSE b
Min2(a, b) == IF a <= b THEN a ELSE b

\* a rescaling that divides by the largest raw score only
RescaleByObservedMax(score, nterms) ==
    LET max_score == MaxOf({score[d] : d \in DOMAIN score})
    IN  [d \in DOMAIN score |-> Min2(99 * 1000, (score[d] * 100 * 1000) \div max_score)]

\* lines 94-100: min(99, score / max(max_theoretical, max_score) * 100),
\* in units of 1/1000 like the raw scores
Rescale(score, nterms) ==
    LET max_theoretical == nterms * 10 * 1000
        max_score == MaxOf({score[d] : d \in DOMAIN score})
    IN  [d \in DOMAIN score |->
            Min2(99 * 1000, (score[d] * 100 * 1000) \div Max2(max_theoretical, max_score))]

\* sorted(scores.items(), key=lambda x: x[1], reverse=True): stable, so equal
\* scores keep the order in which the documents were first scored
RECURSIVE InsertRanked(_, _, _)
InsertRanked(ranked, d, score) ==
    IF ranked = <<>> THEN <<d>>
    ELSE IF score[Head(ranked)] >= score[d]
         THEN <<Head(ranked)>> \o InsertRanked(Tail(ranked), d, score)
         ELSE <<d>> \o ranked
RECURSIVE SortRanked(_, _, _)
SortRanked(order, score, ranked) ==
    IF order = <<>> THEN ranked
    ELSE SortRanked(Tail(order), score, InsertRanked(ranked, Head(order), score))

\* a result that is not cut to top_k
SliceToAll(ranked, k) == ranked

\* ranked[:top_k]
SliceTo(ranked, k) ==
    IF k >= 0 THEN SubSeq(ranked, 1, Min2(k, Len(ranked)))
    ELSE SubSeq(ranked, 1, Max2(0, Len(ranked) + k))

\* a hit that reports every matched term of the query, whatever the document
HitWithAllMatchedTerms(doc, score, match, docidx) ==
    LET info == GetOrEmpty(docidx, doc)
        all == UNION {match[d] : d \in DOMAIN match}
    IN  [doc_id |-> doc,
         score |-> score[doc],
         token_count |-> IF "token_count" \in DOMAIN info THEN info.token_count ELSE 0,
         matching_terms |-> all,
         matching_terms_count |-> Cardinality(all)]

\* lines 105-120: one hit
Hit(doc, score, match, docidx) ==
    LET info == GetOrEmpty(docidx, doc) IN
    [doc_id |-> doc,
     score |-> score[doc],
     token_count |-> IF "token_count" \in DOMAIN info THEN info.token_count ELSE 0,
     matching_terms |-> match[doc],
     matching_terms_count |-> Cardinality(match[doc])]

\* SearchEngine.search on the dictionaries the SearchEngine reads:
\* [status: "returned" or "raised", hits: the list returned]
Search(inv, idf, docidx, avg, query, top_k) ==
    IF DOMAIN inv = {} \/ DOMAIN idf = {} THEN [status |-> "returned", hits |-> <<>>]
    ELSE LET query_terms == ProcessQuery(query) IN
         IF query_terms = <<>> THEN [status |-> "returned", hits |-> <<>>]
         ELSE LET acc == ScoreTerms(query_terms, inv, idf, docidx, avg,
                                    [order |-> <<>>, score |-> EmptyMap,
                                     match |-> EmptyMap, raised |-> FALSE])
              IN  IF acc.raised THEN [status |-> "raised", hits |-> <<>>]
                  ELSE IF acc.order = <<>> THEN [status |-> "returned", hits |-> <<>>]
                  ELSE LET score == Rescale(acc.score, Len(query_terms))
                           ranked == SliceTo(SortRanked(acc.order, score, <<>>), top_k)
                       IN  [status |-> "returned",
                            hits |-> [i \in 1..Len(ranked) |->
                                        Hit(ranked[i], score, acc.match, docidx)]]

\* search on SearchEngine s, whose shared dictionaries are engine e's
SearchOn(s, e, query, top_k) ==
    Search(SeAttr(s, e, "inverted_index"), SeAttr(s, e, "idf"),
           SeAttr(s, e, "document_index"), s.avgdl, query, top_k)

(***************************************************************************)
(* Inputs of search, and files written by something else than this engine  *)
(***************************************************************************)
Query_cats  == W_Cats
Query_stop  == W_the \o <<" ">> \o W_on
Query_blank == <<" ">>
Query_short == W_ox
Query_www   == W_www
Query_emu      == W_emu
Query_cats_emu == W_Cats \o <<" ">> \o W_emu
Query_cats_dog == W_Cats \o <<" ">> \o W_dog
Query_dog_cats == W_dog \o <<" ">> \o W_Cats

ApiQueries == {Query_cats, Query_blank, Query_emu}
ApiTopKs == {10}
Queries ==
    {Query_cats, Query_stop, Query_blank, Query_short, Query_www, Query_emu,
     Query_cats_emu, Query_cats_dog, Query_dog_cats}
TopKs == {0, 1, 10}

\* a file that pickle.load / json.load cannot read
UnreadableFile == [NoFile EXCEPT !.exists = TRUE]
\* a readable object without the required keys
NoKeysFile == [NoFile EXCEPT !.exists = TRUE, !.readable = TRUE]
\* 'inverted_index' is there and is not a dict of dicts
WrongShapeFile ==
    [NoFile EXCEPT !.exists = TRUE, !.readable = TRUE,
                   !.keys = {"inverted_index", "document_index"}]
\* 'inverted_index' is there, 'document_index' is not
NoDocumentsFile ==
    [NoFile EXCEPT !.exists = TRUE, !.readable = TRUE, !.keys = {"inverted_index"},
                   !.postings_is_dict = TRUE,
                   !.inverted_index = [t \in {W_ox} |-> <<<<"d1", 1>>>>]]
\* a snapshot without 'idf' and 'total_documents'
OldFormatFile ==
    [NoFile EXCEPT !.exists = TRUE, !.readable = TRUE,
                   !.keys = {"inverted_index", "document_index"},
                   !.postings_is_dict = TRUE,
                   !.inverted_index = [t \in {W_ox} |-> <<<<"d1", 1>>>>],
                   !.document_index = [d \in {"d1"} |-> [token_count |-> 1]]]

ForeignFiles == {UnreadableFile, NoKeysFile, WrongShapeFile, NoDocumentsFile, OldFormatFile}
SnapshotPaths == {"index_pkl", "index_json"}

(***************************************************************************)
(* State                                                                   *)
(***************************************************************************)
NoFrame ==
    [corpus_items |-> <<>>, corpus_metadata |-> EmptyMap, batch_start |-> 0,
     document_frequency |-> EmptyMap, disk_before |-> EmptyDisk, caller |-> "none"]

NoOutcome ==
    [op |-> "none", status |-> "none", phase |-> "none", corpus |-> <<>>,
     corpus_metadata |-> EmptyMap, eng_before |-> NoEngine, disk_before |-> EmptyDisk]

NoVerify == [done |-> FALSE, ok |-> FALSE, eng |-> NoEngine]

\* stats: what a statistics answer reports; served: what the SearchEngine that
\* answers searches holds at that moment
NoStats == [vocabulary_size |-> 0, documents_indexed |-> 0, index_entries |-> 0]
NoReply ==
    [kind |-> "none", query |-> <<>>, top_k |-> 0, status |-> "none", hits |-> <<>>,
     stats |-> NoStats, search_ready |-> FALSE, served |-> NoStats]

engineVarsButReply == <<language, batch_size, monitor, eng, se, disk, pc, frame, outcome,
                        verify, builds>>
engineVars == <<language, batch_size, monitor, eng, se, disk, pc, frame, outcome, verify,
                builds, reply>>

\* lines 19-22 and 69: PSUTIL_AVAILABLE and the enable_monitoring argument
Monitoring(enable_monitoring, psutil_available) ==
    [enable_monitoring |-> enable_monitoring, psutil_available |-> psutil_available]
Monitors == {Monitoring(e, a) : e \in BOOLEAN, a \in BOOLEAN}
\* main.py:318, with psutil installed
MonitoredWithPsutil == Monitoring(TRUE, TRUE)

\* lines 102-109: the attribute self.process after __init__; the branch of
\* line 106 leaves it unset
ProcessAttribute(m) ==
    IF m.enable_monitoring /\ m.psutil_available THEN "psutil.Process"
    ELSE IF m.enable_monitoring /\ ~m.psutil_available THEN "unset"
    ELSE "None"

InitEngineWith(m) ==
    /\ monitor = m
    /\ language \in Languages
    /\ batch_size \in 1..MaxBatch
    /\ eng = FreshEngine
    /\ se = NoSearchEngine
    /\ disk = EmptyDisk
    /\ pc = "idle"
    /\ frame = NoFrame
    /\ outcome = NoOutcome
    /\ verify = NoVerify
    /\ builds = 0
    /\ reply = NoReply

InitEngine == InitEngineWith(MonitoredWithPsutil)

NoRequest == [stage |-> "none", query |-> <<>>, top_k |-> 0]
NotNormalized == [done |-> FALSE, document |-> <<>>, query |-> <<>>]

Init ==
    /\ InitEngine
    /\ req = NoRequest
    /\ raw = <<>>
    /\ normalized = NotNormalized

(***************************************************************************)
(* process_corpus, step by step                                            *)
(***************************************************************************)
\* batches that take the last document of the batch before them again
BatchAtOverlapping(items, start) ==
    SubSeq(items, Max2(1, start), Min2(start + batch_size, Len(items)))

\* corpus_items[batch_start:batch_end]
BatchAt(items, start) == SubSeq(items, start + 1, Min2(start + batch_size, Len(items)))

\* lines 111-115: _get_memory_info reads self.process; an engine whose
\* __init__ left the attribute unset raises AttributeError
GetMemoryInfoRaises(m) == ProcessAttribute(m) = "unset"

\* lines 117-134: process_corpus is entered on engine e; total_documents is
\* set, then _get_memory_info is called for the first time
EnterProcessCorpus(e, corpus, meta, caller) ==
    /\ eng' = [e EXCEPT !.total_documents = Len(corpus)]
    /\ builds' = builds + 1
    /\ verify' = NoVerify
    /\ IF GetMemoryInfoRaises(monitor)
       THEN /\ pc' = "idle"
            /\ frame' = NoFrame
            /\ outcome' = [op |-> "process_corpus", status |-> "raised",
                           phase |-> "memory_info", corpus |-> corpus,
                           corpus_metadata |-> meta, eng_before |-> NoEngine,
                           disk_before |-> disk]
       ELSE /\ pc' = "pass1"
            /\ frame' = [corpus_items |-> corpus, corpus_metadata |-> meta,
                         batch_start |-> 0, document_frequency |-> EmptyMap,
                         disk_before |-> disk, caller |-> caller]
            /\ UNCHANGED outcome

\* an exception leaves process_corpus
LeaveRaising(phase) ==
    /\ pc' = "idle"
    /\ outcome' = [op |-> "process_corpus", status |-> "raised", phase |-> phase,
                   corpus |-> frame.corpus_items,
                   corpus_metadata |-> frame.corpus_metadata,
                   eng_before |-> NoEngine, disk_before |-> frame.disk_before]
    /\ frame' = NoFrame

ProcessCorpusFrom(corpora, metas) ==
    /\ pc = "idle"
    /\ eng.alive
    /\ builds < MaxBuilds
    /\ \E corpus \in corpora, meta \in metas :
          EnterProcessCorpus(eng, corpus, meta, "client")
    /\ reply' = NoReply
    /\ UNCHANGED <<language, batch_size, monitor, se, disk, otherVars>>

\* process_corpus(corpus, corpus_metadata) is called
ProcessCorpusCall == ProcessCorpusFrom(Corpora, MetaMaps)

\* lines 198-216: one batch of Pass 1: pool.map, then the fold
Pass1Batch ==
    /\ pc = "pass1"
    /\ frame.batch_start < Len(frame.corpus_items)
    /\ LET batch == BatchAt(frame.corpus_items, frame.batch_start) IN
       \E worker_fails \in BOOLEAN :
          IF worker_fails \/ BatchRaises(batch)
          THEN /\ LeaveRaising("pass1")
               /\ UNCHANGED eng
          ELSE LET r == Pass1Fold(language, batch, frame.corpus_metadata,
                                  eng.document_index, frame.document_frequency)
               IN  /\ eng' = [eng EXCEPT !.document_index = r.document_index]
                   /\ frame' = [frame EXCEPT
                                  !.document_frequency = r.document_frequency,
                                  !.batch_start = frame.batch_start + batch_size]
                   /\ UNCHANGED <<pc, outcome>>
    /\ UNCHANGED <<language, batch_size, monitor, se, disk, verify, builds, reply, otherVars>>

\* lines 234-245: the IDF table, then _save_idf
Pass1Idf ==
    /\ pc = "pass1"
    /\ frame.batch_start >= Len(frame.corpus_items)
    /\ eng' = [eng EXCEPT !.idf = ComputeIdf(eng.idf, frame.document_frequency,
                                              eng.total_documents)]
    /\ disk' = SaveIdf(disk, eng')
    /\ frame' = [frame EXCEPT !.batch_start = 0]
    /\ pc' = "pass2"
    /\ UNCHANGED <<language, batch_size, monitor, se, outcome, verify, builds, reply, otherVars>>

\* lines 258-268: one batch of Pass 2
Pass2Batch ==
    /\ pc = "pass2"
    /\ frame.batch_start < Len(frame.corpus_items)
    /\ LET batch == BatchAt(frame.corpus_items, frame.batch_start) IN
       \E worker_fails \in BOOLEAN :
          IF worker_fails \/ BatchRaises(batch)
          THEN /\ LeaveRaising("pass2")
               /\ UNCHANGED eng
          ELSE /\ eng' = [eng EXCEPT !.inverted_index =
                                Pass2Fold(language, batch, eng.inverted_index)]
               /\ frame' = [frame EXCEPT !.batch_start = frame.batch_start + batch_size]
               /\ UNCHANGED <<pc, outcome>>
    /\ UNCHANGED <<language, batch_size, monitor, se, disk, verify, builds, reply, otherVars>>

\* lines 158-183: _save_index, then process_corpus returns status 'success'
SaveAndReturn ==
    /\ pc = "pass2"
    /\ frame.batch_start >= Len(frame.corpus_items)
    /\ disk' = SaveIndex(disk, eng)
    /\ outcome' = [op |-> "process_corpus", status |-> "success", phase |-> "done",
                   corpus |-> frame.corpus_items,
                   corpus_metadata |-> frame.corpus_metadata,
                   eng_before |-> NoEngine, disk_before |-> frame.disk_before]
    /\ pc' = IF frame.caller = "build_index" THEN "build_swap" ELSE "idle"
    /\ frame' = NoFrame
    /\ UNCHANGED <<language, batch_size, monitor, eng, se, verify, builds, reply, otherVars>>

(***************************************************************************)
(* The other calls a client of the two classes makes                       *)
(***************************************************************************)
\* IndexingEngine(index_path, language, ...)
NewIndexingEngine ==
    /\ pc = "idle"
    /\ eng # FreshEngine
    /\ eng' = FreshEngine
    /\ se' = Detach(se, eng, IndexAttrs)
    /\ outcome' = NoOutcome
    /\ verify' = NoVerify
    /\ reply' = NoReply
    /\ UNCHANGED <<language, batch_size, monitor, disk, pc, frame, builds, otherVars>>

\* IndexingEngine.load_index
LoadIndexCall ==
    /\ pc = "idle"
    /\ eng.alive
    /\ LET r == LoadIndexOn(eng, disk) IN
          /\ eng' = r.eng
          /\ se' = Detach(se, eng, r.rebound)
          /\ outcome' = [NoOutcome EXCEPT !.op = "load_index",
                                          !.status = IF r.ok THEN "True" ELSE "False",
                                          !.eng_before = eng]
    /\ verify' = NoVerify
    /\ reply' = NoReply
    /\ UNCHANGED <<language, batch_size, monitor, disk, pc, frame, builds, otherVars>>

\* rebuild_index.py, lines 106-112: a new engine on the same index_path loads
VerifyLoad ==
    /\ pc = "idle"
    /\ eng.alive
    /\ ~verify.done
    /\ LET r == LoadIndexOn(FreshEngine, disk) IN
          verify' = [done |-> TRUE, ok |-> r.ok, eng |-> r.eng]
    /\ UNCHANGED <<language, batch_size, monitor, eng, se, disk, pc, frame, outcome, builds,
                   reply, otherVars>>

\* SearchEngine(indexing_engine)
NewSearchEngine ==
    /\ pc = "idle"
    /\ eng.alive
    /\ se' = SearchEngineOf(eng)
    /\ reply' = NoReply
    /\ UNCHANGED <<language, batch_size, monitor, eng, disk, pc, frame, outcome, verify, builds,
                   otherVars>>

\* defaultdict.__getitem__: reading a key that is missing inserts it with the
\* default value, an empty posting list
AfterGetItem(inv, term) == IF term \in DOMAIN inv THEN inv ELSE Put(inv, term, <<>>)

\* a loop that reads self.inverted_index[term] for every term of the query
RECURSIVE IndexAfterUnguardedLookups(_, _)
IndexAfterUnguardedLookups(terms, inv) ==
    IF terms = <<>> THEN inv
    ELSE IndexAfterUnguardedLookups(Tail(terms), AfterGetItem(inv, Head(terms)))

\* lines 70-75: the inverted index after the loop's reads: a term that is not
\* a key is skipped before self.inverted_index[term] is read
RECURSIVE IndexAfterLookups(_, _)
IndexAfterLookups(terms, inv) ==
    IF terms = <<>> THEN inv
    ELSE IF Head(terms) \notin DOMAIN inv THEN IndexAfterLookups(Tail(terms), inv)
    ELSE IndexAfterLookups(Tail(terms), AfterGetItem(inv, Head(terms)))

\* lines 58-75: the inverted index the SearchEngine refers to, after search(query)
IndexAfterSearch(s, e, query) ==
    LET inv == SeAttr(s, e, "inverted_index")
        terms == ProcessQuery(query)
    IN  IF DOMAIN inv = {} \/ DOMAIN SeAttr(s, e, "idf") = {} \/ terms = <<>> THEN inv
        ELSE IndexAfterLookups(terms, inv)

\* search(query) has run on SearchEngine se: the dictionary it read is the
\* engine's while the two share it
SearchLeavesIndex(query) ==
    LET after == IndexAfterSearch(se, eng, query) IN
    IF ~se.alive THEN UNCHANGED <<eng, se>>
    ELSE IF "inverted_index" \in se.shared
    THEN eng' = [eng EXCEPT !.inverted_index = after] /\ UNCHANGED se
    ELSE se' = [se EXCEPT !.inverted_index = after] /\ UNCHANGED eng

\* SearchEngine.search(query, top_k)
SearchCall ==
    /\ pc = "idle"
    /\ se.alive
    /\ \E q \in Queries, k \in TopKs :
          LET r == SearchOn(se, eng, q, k) IN
          /\ reply' = [NoReply EXCEPT !.kind = "search", !.query = q, !.top_k = k,
                                      !.status = r.status, !.hits = r.hits]
          /\ SearchLeavesIndex(q)
    /\ UNCHANGED <<language, batch_size, monitor, disk, pc, frame, outcome, verify,
                   builds, otherVars>>

\* a handler that searches without looking at the two references first
SearchEndpointUnguarded(s, e, query, top_k) ==
    IF Strip(query) = <<>> THEN [status |-> "query_is_empty", hits |-> <<>>]
    ELSE LET r == SearchOn(s, e, query, top_k) IN
         IF r.status = "raised" THEN [status |-> "http_500", hits |-> <<>>]
         ELSE [status |-> "success", hits |-> r.hits]

\* main.py, search(query, top_k), lines 189-225, on the two references
SearchEndpoint(s, e, query, top_k) ==
    IF Strip(query) = <<>> THEN [status |-> "query_is_empty", hits |-> <<>>]
    ELSE IF ~s.alive \/ ~e.alive THEN [status |-> "http_400", hits |-> <<>>]
    ELSE LET r == SearchOn(s, e, query, top_k) IN
         IF r.status = "raised" THEN [status |-> "http_500", hits |-> <<>>]
         ELSE [status |-> "success", hits |-> r.hits]

\* GET /search, while no other request is being handled
SearchRequest ==
    /\ pc = "idle"
    /\ \E q \in ApiQueries, k \in ApiTopKs :
          LET r == SearchEndpoint(se, eng, q, k) IN
          /\ reply' = [NoReply EXCEPT !.kind = "endpoint", !.query = q, !.top_k = k,
                                      !.status = r.status, !.hits = r.hits]
          /\ IF r.status \in {"success", "http_500"} THEN SearchLeavesIndex(q)
             ELSE UNCHANGED <<eng, se>>
    /\ UNCHANGED <<language, batch_size, monitor, disk, pc, frame, outcome, verify,
                   builds, otherVars>>

\* something else than this engine writes or removes a snapshot file
ExternalWrite ==
    /\ pc = "idle"
    /\ \E path \in SnapshotPaths, f \in ForeignFiles \cup {NoFile} :
          /\ disk[path] # f
          /\ disk' = [disk EXCEPT ![path] = f]
    /\ verify' = NoVerify
    /\ reply' = NoReply
    /\ UNCHANGED <<language, batch_size, monitor, eng, se, pc, frame, outcome, builds,
                   otherVars>>

(***************************************************************************)
(* Specifications                                                          *)
(***************************************************************************)
\* a client of IndexingEngine: builds, loads, and the verifying load
Next ==
    \/ NewIndexingEngine
    \/ ProcessCorpusCall
    \/ Pass1Batch
    \/ Pass1Idf
    \/ Pass2Batch
    \/ SaveAndReturn
    \/ LoadIndexCall
    \/ VerifyLoad

Spec == Init /\ [][Next]_vars

\* process_corpus with a corpus that yields terms or one that yields none, for
\* the specification about searching
SampleCorpora == {Corpus_both, Corpus_stop}
NoMetadata == {EmptyMap}
ProcessSampleCorpus == ProcessCorpusFrom(SampleCorpora, NoMetadata)

\* process_corpus(two documents), for the specification about loading
TwoDocuments == {Corpus_both}
ProcessTwoDocuments == ProcessCorpusFrom(TwoDocuments, NoMetadata)

\* loading whatever the index path holds
NextLoad ==
    \/ ProcessTwoDocuments
    \/ Pass1Batch
    \/ Pass1Idf
    \/ Pass2Batch
    \/ SaveAndReturn
    \/ ExternalWrite
    \/ LoadIndexCall

InitLoad == Init /\ language = "english" /\ batch_size = 1

SpecLoad == InitLoad /\ [][NextLoad]_vars

\* searching: through SearchEngine.search and through GET /search
NextSearch ==
    \/ ProcessSampleCorpus
    \/ Pass1Batch
    \/ Pass1Idf
    \/ Pass2Batch
    \/ SaveAndReturn
    \/ NewSearchEngine
    \/ SearchCall
    \/ SearchRequest

SpecSearch == Init /\ [][NextSearch]_vars


\* the pieces raw texts are made of
Fragments == {W_http, W_www, <<".">>, <<":">>, <<"/">>, <<" ">>, W_Cats, W_the, W_ox}

\* one more piece of the raw text
TypeFragment ==
    /\ ~normalized.done
    /\ Len(raw) < MaxFrags
    /\ \E f \in Fragments : raw' = Append(raw, f)
    /\ UNCHANGED <<engineVars, req, normalized>>

RawText == Concat(raw)

\* the raw text goes through process_document, in the engine's language, and
\* through _process_query
NormalizeBoth ==
    /\ ~normalized.done
    /\ normalized' = [done |-> TRUE,
                      document |-> ProcessDocument(language, RawText),
                      query |-> ProcessQuery(RawText)]
    /\ UNCHANGED <<engineVars, req, raw>>

NextNorm ==
    \/ TypeFragment
    \/ NormalizeBoth

SpecNorm == Init /\ [][NextNorm]_vars

(***************************************************************************)
(* main.py: the handlers, on the globals indexing_engine (eng) and          *)
(* search_engine (se); requests are handled concurrently                    *)
(***************************************************************************)
\* corpus_handler.load_corpus(): what the corpus directory holds
ApiCorpora == {Corpus_empty, Corpus_cats, Corpus_both, Corpus_bad}

\* POST /api/index/build, lines 289-325: the corpus is loaded; an empty one is
\* answered with HTTP 400; else the global indexing_engine becomes a new
\* engine and its process_corpus starts
BuildRequest ==
    /\ pc = "idle"
    /\ builds < MaxBuilds
    /\ \E corpus \in ApiCorpora :
          IF corpus = <<>>
          THEN /\ reply' = [NoReply EXCEPT !.kind = "build", !.status = "http_400"]
               /\ UNCHANGED <<eng, se, pc, frame, builds, verify, outcome>>
          ELSE /\ EnterProcessCorpus(FreshEngine, corpus, EmptyMap, "build_index")
               /\ se' = Detach(se, eng, IndexAttrs)
               /\ reply' = NoReply
    /\ UNCHANGED <<language, batch_size, monitor, disk, otherVars>>

\* build_index, lines 327-343: process_corpus has returned
BuildSwap ==
    /\ pc = "build_swap"
    /\ se' = SearchEngineOf(eng)
    /\ pc' = "idle"
    /\ reply' = NoReply
    /\ UNCHANGED <<language, batch_size, monitor, eng, disk, frame, outcome, verify, builds,
                   otherVars>>

\* get_index_statistics
IndexStatistics(e) ==
    [vocabulary_size |-> Cardinality(DOMAIN e.idf),
     documents_indexed |-> Cardinality(DOMAIN e.document_index),
     index_entries |-> Cardinality(DOMAIN e.inverted_index)]

\* the same three numbers of the dictionaries the SearchEngine reads
ServedStatistics(s, e) ==
    IF ~s.alive THEN NoStats
    ELSE [vocabulary_size |-> Cardinality(DOMAIN SeAttr(s, e, "idf")),
          documents_indexed |-> Cardinality(DOMAIN SeAttr(s, e, "document_index")),
          index_entries |-> Cardinality(DOMAIN SeAttr(s, e, "inverted_index"))]

\* GET /health
HealthRequest ==
    /\ reply' = [NoReply EXCEPT
                   !.kind = "health",
                   !.status = IF eng.alive THEN "loaded" ELSE "not_loaded",
                   !.stats = IF eng.alive THEN IndexStatistics(eng) ELSE NoStats,
                   !.search_ready = se.alive,
                   !.served = ServedStatistics(se, eng)]
    /\ UNCHANGED <<engineVarsButReply, otherVars>>

\* GET /api/index/stats
StatsRequest ==
    /\ reply' = [NoReply EXCEPT
                   !.kind = "stats",
                   !.status = IF eng.alive /\ se.alive THEN "success" ELSE "not_ready",
                   !.stats = IF eng.alive /\ se.alive THEN IndexStatistics(eng)
                             ELSE NoStats,
                   !.search_ready = se.alive,
                   !.served = ServedStatistics(se, eng)]
    /\ UNCHANGED <<engineVarsButReply, otherVars>>

\* GET /search, lines 189-201: the two checks before the search
SearchCheck ==
    /\ req.stage = "none"
    /\ \E q \in ApiQueries, k \in ApiTopKs :
          IF Strip(q) = <<>>
          THEN /\ reply' = [NoReply EXCEPT !.kind = "endpoint", !.query = q,
                                          !.top_k = k, !.status = "query_is_empty"]
               /\ UNCHANGED req
          ELSE IF ~se.alive \/ ~eng.alive
          THEN /\ reply' = [NoReply EXCEPT !.kind = "endpoint", !.query = q,
                                          !.top_k = k, !.status = "http_400"]
               /\ UNCHANGED req
          ELSE /\ req' = [stage |-> "checked", query |-> q, top_k |-> k]
               /\ UNCHANGED reply
    /\ UNCHANGED <<engineVarsButReply, raw, normalized>>

\* GET /search, lines 203-225: search_engine.search on the global as it is
\* now; None has no search attribute, and that exception becomes HTTP 500
SearchFinish ==
    /\ req.stage = "checked"
    /\ LET r == IF se.alive THEN SearchOn(se, eng, req.query, req.top_k)
                ELSE [status |-> "raised", hits |-> <<>>]
       IN  reply' = [NoReply EXCEPT
                       !.kind = "endpoint", !.query = req.query, !.top_k = req.top_k,
                       !.status = IF r.status = "raised" THEN "http_500" ELSE "success",
                       !.hits = r.hits,
                       !.search_ready = se.alive,
                       !.served = ServedStatistics(se, eng)]
    /\ req' = NoRequest
    /\ SearchLeavesIndex(req.query)
    /\ UNCHANGED <<language, batch_size, monitor, disk, pc, frame, outcome, verify, builds,
                   raw, normalized>>

\* POST /api/reload, line 391: indexing_engine = None
ReloadClearIndexing ==
    /\ pc = "idle"
    /\ se' = Detach(se, eng, IndexAttrs)
    /\ eng' = NoEngine
    /\ pc' = "reload_cleared"
    /\ outcome' = NoOutcome
    /\ reply' = NoReply
    /\ UNCHANGED <<language, batch_size, monitor, disk, frame, verify, builds, otherVars>>

\* reload_system, line 392: search_engine = None
ReloadClearSearch ==
    /\ pc = "reload_cleared"
    /\ se' = NoSearchEngine
    /\ pc' = "reload_load"
    /\ UNCHANGED <<language, batch_size, monitor, eng, disk, frame, outcome, verify, builds,
                   reply, otherVars>>

\* _load_index_if_exists, lines 36-59: without index.pkl nothing is loaded;
\* else the global indexing_engine becomes a new engine and load_index runs
ReloadLoad ==
    /\ pc = "reload_load"
    /\ IF ~disk.index_pkl.exists
       THEN /\ pc' = "idle"
            /\ UNCHANGED <<eng, outcome>>
       ELSE LET r == LoadIndexOn(FreshEngine, disk) IN
            /\ eng' = r.eng
            /\ outcome' = [NoOutcome EXCEPT !.op = "load_index",
                                            !.status = IF r.ok THEN "True" ELSE "False"]
            /\ pc' = IF r.ok THEN "reload_swap" ELSE "reload_reset"
    /\ UNCHANGED <<language, batch_size, monitor, se, disk, frame, verify, builds, reply,
                   otherVars>>

\* _load_index_if_exists, lines 61-71: load_index returned True
ReloadSwap ==
    /\ pc = "reload_swap"
    /\ se' = SearchEngineOf(eng)
    /\ pc' = "idle"
    /\ UNCHANGED <<language, batch_size, monitor, eng, disk, frame, outcome, verify, builds,
                   reply, otherVars>>

\* _load_index_if_exists, lines 72-76: load_index returned False
ReloadReset ==
    /\ pc = "reload_reset"
    /\ eng' = NoEngine
    /\ se' = NoSearchEngine
    /\ pc' = "idle"
    /\ UNCHANGED <<language, batch_size, monitor, disk, frame, outcome, verify, builds,
                   reply, otherVars>>

\* index.pkl is replaced by a file that is not a snapshot
SnapshotDamaged ==
    /\ pc = "idle"
    /\ disk.index_pkl.exists
    /\ disk.index_pkl # NoDocumentsFile
    /\ disk' = [disk EXCEPT !.index_pkl = NoDocumentsFile]
    /\ reply' = NoReply
    /\ UNCHANGED <<language, batch_size, monitor, eng, se, pc, frame, outcome, verify, builds,
                   otherVars>>

NextApi ==
    \/ BuildRequest
    \/ Pass1Batch
    \/ Pass1Idf
    \/ Pass2Batch
    \/ SaveAndReturn
    \/ BuildSwap
    \/ HealthRequest
    \/ StatsRequest
    \/ SearchCheck
    \/ SearchFinish
    \/ ReloadClearIndexing
    \/ ReloadClearSearch
    \/ ReloadLoad
    \/ ReloadSwap
    \/ ReloadReset
    \/ SnapshotDamaged

\* the server after startup_event found no index.pkl
InitApi ==
    /\ language = "english"
    /\ batch_size = MaxBatch
    /\ monitor = MonitoredWithPsutil
    /\ eng = NoEngine
    /\ se = NoSearchEngine
    /\ disk = EmptyDisk
    /\ pc = "idle"
    /\ frame = NoFrame
    /\ outcome = NoOutcome
    /\ verify = NoVerify
    /\ builds = 0
    /\ reply = NoReply
    /\ req = NoRequest
    /\ raw = <<>>
    /\ normalized = NotNormalized

SpecApi == InitApi /\ [][NextApi]_vars

(***************************************************************************)
(* Properties of the server during and after POST /api/index/build          *)
(***************************************************************************)
\* C6: while POST /api/index/build runs, and after it has failed, the search
\* engine the server exposes is the one made from the indexing engine it
\* exposes, and a health or statistics answer that reports a loaded index and
\* a ready search engine reports the numbers of the index that search engine
\* serves: never those of an engine that is being built or was left half built.
C6_RequestsSeeOneSnapshot ==
    /\ pc \in {"idle", "pass1", "pass2", "build_swap"} /\ se.alive =>
          eng.alive /\ se.shared = IndexAttrs
    /\ reply.kind \in {"health", "stats"} /\ reply.search_ready
          /\ reply.status \in {"loaded", "success"} =>
          reply.stats = reply.served

(***************************************************************************)
(* Properties of the two normalizers                                       *)
(***************************************************************************)
\* C5: for every raw text and every language of the engine, _process_query
\* yields the term sequence process_document yields for the same text.
C5_SameNormalization ==
    normalized.done => normalized.query = normalized.document

(***************************************************************************)
(* Properties of process_corpus and load_index                             *)
(***************************************************************************)
\* what a corpus holds: its doc_ids, and the terms of its documents
CorpusDocIds(corpus) == {corpus[i][1] : i \in 1..Len(corpus)}
CorpusTerms(corpus) ==
    UNION {TermSet(ProcessDocument(language, corpus[i][2].chars)) : i \in 1..Len(corpus)}
HasBadDocument(corpus) == \E i \in 1..Len(corpus) : ~corpus[i][2].isstr

\* process_corpus has returned, and nothing was called after it
Returned(status) ==
    pc = "idle" /\ outcome.op = "process_corpus" /\ outcome.status = status

\* C1: after a build has succeeded, on an engine in any earlier state, the
\* engine's document count, postings, document records and IDF table are
\* exactly those of the corpus just built: no term, doc_id or IDF entry of an
\* earlier corpus is left.
C1_BuildReplacesIndex ==
    Returned("success") =>
        /\ eng.total_documents = Len(outcome.corpus)
        /\ DOMAIN eng.document_index = CorpusDocIds(outcome.corpus)
        /\ DOMAIN eng.inverted_index = CorpusTerms(outcome.corpus)
        /\ DOMAIN eng.idf = CorpusTerms(outcome.corpus)
        /\ \A t \in DOMAIN eng.inverted_index :
              PostingDocs(eng.inverted_index[t]) \subseteq CorpusDocIds(outcome.corpus)

\* C2: a build with an empty corpus ends in an error and leaves every file
\* under index_path as it was, and a load on that path then fails.
C2_EmptyCorpusIsAnError ==
    (Returned("success") \/ Returned("raised")) /\ outcome.corpus = <<>> =>
        /\ outcome.status = "raised"
        /\ disk = outcome.disk_before
        /\ (verify.done => ~verify.ok)

\* C4: after a successful build, load_index on a new engine over the same
\* index_path returns True and gives that engine the postings, term
\* statistics, document records and document count of the engine that built.
C4_RoundTrip ==
    Returned("success") /\ verify.done =>
        /\ verify.ok
        /\ verify.eng.inverted_index = eng.inverted_index
        /\ verify.eng.idf = eng.idf
        /\ verify.eng.document_index = eng.document_index
        /\ verify.eng.total_documents = eng.total_documents

C4_RoundTripReached ==
    /\ Returned("success")
    /\ verify.done
    /\ Cardinality(DOMAIN eng.inverted_index) >= 2
    /\ Cardinality(DOMAIN eng.document_index) = 2

\* C7 as stated: a build that a worker failure ended has left every file
\* under index_path as it was before the build.
C7_FailedBuildWritesNothing ==
    Returned("raised") => disk = outcome.disk_before

\* C7: a failure in a batch of either pass ends the build; index.pkl and
\* index_metadata.json are then as they were before the build; idf.json is as
\* it was when the failure is in Pass 1, and holds the failed build's IDF
\* table when the failure is in Pass 2.
C7_FailedBuildKeepsSnapshot ==
    Returned("raised") =>
        /\ disk.index_pkl = outcome.disk_before.index_pkl
        /\ disk.index_metadata_json = outcome.disk_before.index_metadata_json
        /\ disk.index_json = outcome.disk_before.index_json
        /\ (outcome.phase = "pass1" => disk.idf_json = outcome.disk_before.idf_json)
        /\ (outcome.phase = "pass2" => disk.idf_json = IdfJson(eng))

C7_FailedSecondBuildReached ==
    /\ Returned("raised")
    /\ outcome.phase = "pass2"
    /\ outcome.disk_before.index_pkl.exists
    /\ disk.idf_json # outcome.disk_before.idf_json

\* C8: a build of a corpus in which one document's normalization fails
\* succeeds, and indexes every other document of the corpus.
C8_BadDocumentIsSkipped ==
    (Returned("success") \/ Returned("raised")) /\ HasBadDocument(outcome.corpus) =>
        /\ outcome.status = "success"
        /\ \A i \in 1..Len(outcome.corpus) :
              outcome.corpus[i][2].isstr =>
                  outcome.corpus[i][1] \in DOMAIN eng.document_index


\* C3 as stated: a load_index that returned False has left the engine's four
\* structures exactly as they were before the call.
C3_FailedLoadKeepsEngine ==
    pc = "idle" /\ outcome.op = "load_index" /\ outcome.status = "False" =>
        /\ eng.inverted_index = outcome.eng_before.inverted_index
        /\ eng.document_index = outcome.eng_before.document_index
        /\ eng.idf = outcome.eng_before.idf
        /\ eng.total_documents = outcome.eng_before.total_documents

(***************************************************************************)
(* Properties of search                                                    *)
(***************************************************************************)
NonBlank(query) == Strip(query) # <<>>

\* a term of the query has a posting list in the index the SearchEngine reads
Matches(query) ==
    \E t \in TermSet(ProcessQuery(query)) : t \in DOMAIN SeAttr(se, eng, "inverted_index")

\* C9 as stated: a search on engines that hold no index fails explicitly, both
\* through SearchEngine.search and through GET /search.
C9_NotLoadedFailsAtEveryLayer ==
    /\ reply.kind = "search" /\ eng = FreshEngine => reply.status = "raised"
    /\ reply.kind = "endpoint" /\ ~se.alive /\ NonBlank(reply.query) =>
          reply.status = "http_400"

\* C9: GET /search with a query that is not blank answers HTTP 400 while the
\* search engine reference is None, and answers success with an empty list
\* when an index is loaded and no term of the query is in it;
\* SearchEngine.search returns an empty list, without raising, in both cases.
C9_EndpointDistinguishes ==
    /\ reply.kind = "endpoint" /\ ~se.alive /\ NonBlank(reply.query) =>
          reply.status = "http_400"
    /\ reply.kind = "endpoint" /\ se.alive /\ NonBlank(reply.query)
          /\ ~Matches(reply.query) =>
          reply.status = "success" /\ reply.hits = <<>>
    /\ reply.kind = "search" /\ ~Matches(reply.query) =>
          reply.status = "returned" /\ reply.hits = <<>>

C9_NotLoadedRequestReached ==
    /\ reply.kind = "endpoint"
    /\ reply.status = "http_400"
    /\ reply.query = Query_cats
    /\ eng.inverted_index # EmptyMap

\* the queries of the model that are blank, or hold only stopwords or only
\* tokens of at most two characters
EmptyQueries == {Query_stop, Query_blank, Query_short}

\* C10: SearchEngine.search with a blank query, a query of stopwords only or a
\* query of tokens of at most two characters only returns an empty list and
\* does not raise, whatever index the SearchEngine reads.
C10_EmptyQueryReturnsEmptyList ==
    reply.kind = "search" /\ reply.query \in EmptyQueries =>
        reply.status = "returned" /\ reply.hits = <<>>

C10_StopwordQueryOnIndexReached ==
    /\ reply.kind = "search"
    /\ reply.query = Query_stop
    /\ W_the \in DOMAIN SeAttr(se, eng, "inverted_index")
    /\ DOMAIN SeAttr(se, eng, "idf") # {}


\* the query with one more word, a word no corpus of the model holds
WithAbsentTerm(query) == query \o <<" ">> \o W_emu

\* C11: a search returns the same hits, in the same order and with the same
\* scores, when a term that is not in the vocabulary is added to its query.
C11_AbsentTermChangesNothing ==
    reply.kind = "search" /\ reply.status = "returned"
        /\ W_emu \notin DOMAIN SeAttr(se, eng, "inverted_index") =>
        SearchOn(se, eng, WithAbsentTerm(reply.query), reply.top_k).hits = reply.hits


\* the documents with a posting for a term of the query, in the index the
\* SearchEngine reads
ScoredDocs(query) ==
    LET inv == SeAttr(se, eng, "inverted_index")
        terms == TermSet(ProcessQuery(query)) \cap DOMAIN inv
    IN  UNION {PostingDocs(inv[t]) : t \in terms}

\* C12: the hits of a search are in non-increasing order of score, and for
\* top_k >= 0 there are exactly min(top_k, number of scored documents) of them.
C12_RankedAndCut ==
    reply.kind = "search" /\ reply.status = "returned" /\ reply.top_k >= 0 =>
        /\ Len(reply.hits) = Min2(reply.top_k, Cardinality(ScoredDocs(reply.query)))
        /\ \A i, j \in 1..Len(reply.hits) :
              i < j => reply.hits[i].score >= reply.hits[j].score

C12_CutToTopKReached ==
    /\ reply.kind = "search"
    /\ reply.status = "returned"
    /\ reply.top_k = 1
    /\ Cardinality(ScoredDocs(reply.query)) = 2
    /\ Len(reply.hits) = 1


\* the distinct terms of the query with a posting for document doc
TermsMatching(query, doc) ==
    LET inv == SeAttr(se, eng, "inverted_index") IN
    {t \in TermSet(ProcessQuery(query)) \cap DOMAIN inv : doc \in PostingDocs(inv[t])}

HitDocs(hits) == {hits[i].doc_id : i \in 1..Len(hits)}

\* C13: the hits of a search are documents with a posting for a term of the
\* normalized query, each once, and all of them when top_k allows; a hit's
\* matching_terms is the set of the distinct query terms with a posting for
\* that document, and matching_terms_count is its size.
C13_HitsAreMatchingDocuments ==
    reply.kind = "search" /\ reply.status = "returned" =>
        /\ HitDocs(reply.hits) \subseteq ScoredDocs(reply.query)
        /\ Cardinality(HitDocs(reply.hits)) = Len(reply.hits)
        /\ reply.top_k >= Cardinality(ScoredDocs(reply.query)) =>
              HitDocs(reply.hits) = ScoredDocs(reply.query)
        /\ \A i \in 1..Len(reply.hits) :
              /\ reply.hits[i].matching_terms =
                    TermsMatching(reply.query, reply.hits[i].doc_id)
              /\ reply.hits[i].matching_terms # {}
              /\ reply.hits[i].matching_terms_count =
                    Cardinality(reply.hits[i].matching_terms)

C13_OtherDocumentLeftOutReached ==
    /\ reply.kind = "search"
    /\ reply.query = Query_cats
    /\ reply.top_k = 10
    /\ HitDocs(reply.hits) = {"d1"}
    /\ "d2" \in DOMAIN SeAttr(se, eng, "document_index")
    /\ W_dog \in DOMAIN SeAttr(se, eng, "inverted_index")


\* the raw BM25 score of document doc for the terms of a query, one
\* contribution per term of the query that has a posting for doc
RECURSIVE RawScore(_, _)
RawScore(terms, doc) ==
    IF terms = <<>> THEN 0
    ELSE LET inv == SeAttr(se, eng, "inverted_index")
             idf == SeAttr(se, eng, "idf")
             info == GetOrEmpty(SeAttr(se, eng, "document_index"), doc)
             t == Head(terms)
         IN  (IF t \in DOMAIN inv /\ doc \in PostingDocs(inv[t])
              THEN Bm25(IF t \in DOMAIN idf THEN idf[t] ELSE 0,
                        PostingFreq(inv[t], doc),
                        IF "token_count" \in DOMAIN info THEN info.token_count ELSE 1,
                        se.avgdl)
              ELSE 0)
             + RawScore(Tail(terms), doc)

DocIdBefore(a, b) == a = "d1" /\ b = "d2"

\* C15: hits of equal score come in ascending doc_id, and the order of the
\* hits does not depend on the order of the terms in the query.
C15_TiesBrokenByDocId ==
    reply.kind = "search" /\ reply.status = "returned" =>
        /\ \A i, j \in 1..Len(reply.hits) :
              i < j /\ reply.hits[i].score = reply.hits[j].score =>
                  DocIdBefore(reply.hits[i].doc_id, reply.hits[j].doc_id)
        /\ reply.query = Query_cats_dog =>
              SearchOn(se, eng, Query_dog_cats, reply.top_k).hits = reply.hits


(***************************************************************************)
(* SearchEngine._extract_snippet, applied to typed previews                *)
(***************************************************************************)
MaxLength == 100
ContextBefore == 20
PadLen == 40
MaxPreviewFrags == 4

Ellipsis == <<".", ".", ".">>
Quoted(t) == <<"\"">> \o t \o <<"\"">>
NoPreview == <<"Vista previa no disponible">>

\* str.find: the smallest 0-based offset at which term occurs in text, or -1
Find(text, term) ==
    LET found == {i \in 1..Len(text) : HasAt(text, i, term)}
    IN  IF found = {} THEN -1 ELSE (CHOOSE i \in found : \A j \in found : i <= j) - 1

\* text[a:b]
Slice(text, a, b) == SubSeq(text, a + 1, Min2(b, Len(text)))

\* lines 163-166 and 187-191: the leading max_length characters
LeadingSnippet(text_preview) ==
    Quoted(Strip(Slice(text_preview, 0, MaxLength))
              \o (IF Len(text_preview) > MaxLength THEN Ellipsis ELSE <<>>))

\* lines 175-184: the window around offset pos
WindowSnippet(text_preview, pos) ==
    LET start == Max2(0, pos - ContextBefore)
        end == Min2(Len(text_preview), start + MaxLength)
    IN  Quoted((IF start > 0 THEN Ellipsis ELSE <<>>)
                  \o Strip(Slice(text_preview, start, end))
                  \o (IF end < Len(text_preview) THEN Ellipsis ELSE <<>>))

\* lines 169-191: the first term of the list that occurs anywhere in the
\* lowered preview anchors the window
RECURSIVE SnippetForTerms(_, _)
SnippetForTerms(text_preview, query_terms) ==
    IF query_terms = <<>> THEN LeadingSnippet(text_preview)
    ELSE LET pos == Find(Lower(text_preview), Lower(Head(query_terms)))
         IN  IF pos # -1 THEN WindowSnippet(text_preview, pos)
             ELSE SnippetForTerms(text_preview, Tail(query_terms))

ExtractSnippet(text_preview, query_terms) ==
    IF text_preview = <<>> THEN NoPreview
    ELSE IF query_terms = <<>> THEN LeadingSnippet(text_preview)
    ELSE SnippetForTerms(text_preview, query_terms)

Pad == [i \in 1..PadLen |-> "x"]
PreviewFragments == {W_Cats, W_dog, <<" ">>, Pad}

\* list(matching_terms[doc_id]): the terms of a set, in the order the set
\* iterates them
TermLists == {<<>>, <<W_cat>>, <<W_dog>>, <<W_cat, W_dog>>, <<W_dog, W_cat>>}

\* one more piece of the preview
TypePreview ==
    /\ reply.kind = "none"
    /\ Len(raw) < MaxPreviewFrags
    /\ \E f \in PreviewFragments : raw' = Append(raw, f)
    /\ UNCHANGED <<engineVars, req, normalized>>

\* _extract_snippet(text_preview, list(matching_terms[doc_id]))
ExtractSnippetCall ==
    /\ reply.kind = "none"
    /\ \E terms \in TermLists :
          reply' = [NoReply EXCEPT
                       !.kind = "snippet",
                       !.query = Concat(raw),
                       !.hits = <<[matching_terms |-> terms,
                                   snippet |-> ExtractSnippet(Concat(raw), terms)]>>]
    /\ UNCHANGED <<engineVarsButReply, req, raw, normalized>>

NextSnippet ==
    \/ TypePreview
    \/ ExtractSnippetCall

SpecSnippet == Init /\ [][NextSnippet]_vars

\* the offsets of the preview at which a term of the list occurs
TermOffsets(text_preview, terms) ==
    {Find(Lower(text_preview), terms[i]) : i \in 1..Len(terms)} \ {-1}

\* C16: the snippet's window is anchored at the smallest offset of the
\* preview at which any of the matching terms occurs; it starts 20 characters
\* before that offset (or at 0), spans at most 100 characters, and carries an
\* ellipsis where the preview goes on; with no occurrence the snippet is the
\* leading 100 characters of the preview.
C16_SnippetAtFirstOccurrence ==
    reply.kind = "snippet" /\ reply.query # <<>> =>
        LET offsets == TermOffsets(reply.query, reply.hits[1].matching_terms)
        IN  reply.hits[1].snippet =
                IF offsets = {} THEN LeadingSnippet(reply.query)
                ELSE WindowSnippet(reply.query,
                                   CHOOSE p \in offsets : \A q \in offsets : p <= q)


(***************************************************************************)
(* IndexingEngine under every monitoring configuration                     *)
(***************************************************************************)
InitMonitor ==
    /\ \E m \in Monitors : InitEngineWith(m)
    /\ req = NoRequest
    /\ raw = <<>>
    /\ normalized = NotNormalized

SpecMonitor == InitMonitor /\ [][Next]_vars

\* C17: monitoring is observational: whatever enable_monitoring is and whether
\* or not psutil is available, a build ends as it would without monitoring,
\* so a build that raises does so in one of its two passes (a failing worker
\* or batch), never in the reading of memory figures.
C17_MonitoringIsObservational ==
    outcome.op = "process_corpus" /\ outcome.status = "raised" =>
        outcome.phase \in {"pass1", "pass2"}


\* C18: a search changes nothing of the index it reads: the inverted index
\* with its set of keys, the idf table, the Document Records and avgdl are
\* after the call what they were before it, also for a query whose terms are
\* not in the vocabulary.
C18_SearchLeavesIndexUnchanged ==
    [][reply' # reply /\ reply'.kind \in {"search", "endpoint"} => eng' = eng /\ se' = se]_vars

C18_AbsentTermSearchedReached ==
    /\ reply.kind = "search"
    /\ reply.query = Query_cats_emu
    /\ Len(reply.hits) = 1
    /\ W_emu \notin DOMAIN SeAttr(se, eng, "inverted_index")


\* the documents among the first n of items in which term t occurs
DocsWithTerm(items, n, t) ==
    {i \in 1..Min2(n, Len(items)) : t \in TermSet(ProcessDocument(language, items[i][2].chars))}

\* C19: document_frequency counts documents, not occurrences: during Pass 1
\* the count of a term is the number of documents folded so far in which the
\* term occurs at least once, and the terms counted are the terms of these
\* documents.
C19_DfCountsDocuments ==
    pc = "pass1" =>
        LET df == frame.document_frequency
            items == frame.corpus_items
            n == frame.batch_start
        IN  /\ \A t \in DOMAIN df : df[t] = Cardinality(DocsWithTerm(items, n, t))
            /\ \A i \in 1..Min2(n, Len(items)) :
                  TermSet(ProcessDocument(language, items[i][2].chars)) \subseteq DOMAIN df

C19_RepeatedTermCountedOnceReached ==
    /\ pc = "pass1"
    /\ language = "english"
    /\ frame.batch_start >= 1
    /\ frame.corpus_items[1][2] = Str(Text_cats)
    /\ frame.document_frequency[W_cat] = 1


\* C20: after a build every term of the IDF table has a document frequency
\* df with 1 <= df <= N in the corpus that was built, N being its number of
\* documents, and its idf is ln((1 + N) / (1 + df)) + 1, which is at least 1
\* (1000 in units of 1/1000): the branch for df = 0 gives no entry.
C20_IdfTermsHaveDocuments ==
    pc = "idle" /\ outcome.op = "process_corpus" /\ outcome.status = "success" =>
        LET N == Len(outcome.corpus) IN
        \A t \in DOMAIN eng.idf :
            LET df == Cardinality(DocsWithTerm(outcome.corpus, N, t))
            IN  /\ 1 <= df
                /\ df <= N
                /\ eng.idf[t] = IdfValue(N, df)
                /\ eng.idf[t] >= 1000


(***************************************************************************)
(* The BM25 contribution of one posting, as its frequency grows            *)
(***************************************************************************)
MaxFreq == 5
MaxDocLen == 3

\* idf values a build gives: N documents, df of them holding the term
BuiltIdfs == {IdfValue(n, df) : n \in 1..MaxDocLen, df \in 1..MaxDocLen}
Avgdls == {[num |-> n, den |-> d] : n \in 1..MaxDocLen, d \in 1..2}

\* lines 74-79: idf, doc_len and self.avgdl of the posting that is scored
ChoosePosting ==
    /\ req.stage = "none"
    /\ reply.kind = "none"
    /\ \E idfv \in BuiltIdfs, doc_len \in 0..MaxDocLen, avg \in Avgdls :
          req' = [stage |-> "bm25", query |-> <<>>, top_k |-> 0,
                  idf |-> idfv, doc_len |-> doc_len, avgdl |-> avg]
    /\ UNCHANGED <<engineVars, raw, normalized>>

\* lines 82-85: the contribution for the next frequency, as the fraction
\* numerator / denominator and as the score the model computes
ScoreNextFreq ==
    /\ req.stage = "bm25"
    /\ Len(reply.hits) < MaxFreq
    /\ LET freq == Len(reply.hits) + 1 IN
       reply' = [reply EXCEPT
                    !.kind = "bm25",
                    !.hits = Append(reply.hits,
                                [freq |-> freq,
                                 numerator |-> Bm25Numerator(req.idf, freq, req.avgdl),
                                 denominator |-> Bm25Denominator(freq, req.doc_len, req.avgdl),
                                 score |-> Bm25(req.idf, freq, req.doc_len, req.avgdl)])]
    /\ UNCHANGED <<engineVarsButReply, req, raw, normalized>>

NextBm25 ==
    \/ ChoosePosting
    \/ ScoreNextFreq

SpecBm25 == Init /\ [][NextBm25]_vars

\* C21: with idf, doc_len and avgdl fixed, the BM25 contribution is strictly
\* increasing in freq and strictly below idf * (k1 + 1) = idf * 5 / 2; the
\* fractions are compared by cross-multiplication.
C21_Bm25IncreasingAndBounded ==
    reply.kind = "bm25" =>
        /\ \A i, j \in 1..Len(reply.hits) :
              i < j => reply.hits[i].numerator * reply.hits[j].denominator
                          < reply.hits[j].numerator * reply.hits[i].denominator
        /\ \A i \in 1..Len(reply.hits) :
              /\ reply.hits[i].denominator > 0
              /\ 2 * reply.hits[i].numerator < 5 * req.idf * reply.hits[i].denominator
              /\ 2 * reply.hits[i].score < 5 * req.idf

C21_LongDocumentScoredReached ==
    /\ reply.kind = "bm25"
    /\ Len(reply.hits) = MaxFreq
    /\ req.doc_len = MaxDocLen
    /\ req.avgdl = [num |-> 1, den |-> 2]


\* the normalized term sequence of the i-th document of a corpus
TokensOf(items, i) == ProcessDocument(language, items[i][2].chars)

\* C22: after Pass 2, for every term t and every document d of the corpus
\* that was built, d is in the posting list of t iff t occurs in d's
\* normalized term sequence, its frequency is then the number of occurrences,
\* and no posting has frequency 0.
C22_PostingsAreOccurrenceCounts ==
    pc = "idle" /\ outcome.op = "process_corpus" /\ outcome.status = "success" =>
        LET items == outcome.corpus
            inv == eng.inverted_index
        IN  /\ \A i \in 1..Len(items) :
                  /\ TermSet(TokensOf(items, i)) \subseteq DOMAIN inv
                  /\ \A t \in DOMAIN inv :
                        /\ items[i][1] \in PostingDocs(inv[t]) <=> t \in TermSet(TokensOf(items, i))
                        /\ items[i][1] \in PostingDocs(inv[t]) =>
                              PostingFreq(inv[t], items[i][1]) = CountOf(TokensOf(items, i), t)
            /\ \A t \in DOMAIN inv : \A k \in 1..Len(inv[t]) : inv[t][k][2] > 0


(***************************************************************************)
(* process_corpus with the metadata maps a caller may supply               *)
(***************************************************************************)
CorporaWithMetadata == {Corpus_cats, Corpus_both}
ProcessWithMetadata == ProcessCorpusFrom(CorporaWithMetadata, MetaMapsWithCount)

NextMeta ==
    \/ ProcessWithMetadata
    \/ Pass1Batch
    \/ Pass1Idf
    \/ Pass2Batch
    \/ SaveAndReturn

SpecMeta == Init /\ [][NextMeta]_vars

\* the sum of a document's frequencies over the posting lists of the terms
RECURSIVE SumOfFreqs(_, _, _)
SumOfFreqs(inv, terms, doc) ==
    IF terms = {} THEN 0
    ELSE LET t == CHOOSE x \in terms : TRUE
         IN  (IF doc \in PostingDocs(inv[t]) THEN PostingFreq(inv[t], doc) ELSE 0)
             + SumOfFreqs(inv, terms \ {t}, doc)

\* C23: after a build, whatever metadata map was supplied, the token_count of
\* every document of the corpus is the number of terms that survive its
\* normalization, which is the sum of the document's frequencies over all
\* posting lists.
C23_TokenCountIsDocumentLength ==
    pc = "idle" /\ outcome.op = "process_corpus" /\ outcome.status = "success" =>
        \A i \in 1..Len(outcome.corpus) :
            LET doc == outcome.corpus[i][1] IN
            /\ doc \in DOMAIN eng.document_index
            /\ eng.document_index[doc].token_count = Len(TokensOf(outcome.corpus, i))
            /\ eng.document_index[doc].token_count
                  = SumOfFreqs(eng.inverted_index, DOMAIN eng.inverted_index, doc)


\* C24: every doc_id of a posting list has a Document Record in
\* document_index, and the record carries a token_count: BM25 never needs the
\* default document length.
C24_PostedDocumentsHaveRecords ==
    \A t \in DOMAIN eng.inverted_index :
        \A d \in PostingDocs(eng.inverted_index[t]) :
            /\ d \in DOMAIN eng.document_index
            /\ "token_count" \in DOMAIN eng.document_index[d]

C24_SnapshotLoadedOnFreshEngineReached ==
    /\ outcome.op = "load_index"
    /\ outcome.status = "True"
    /\ outcome.eng_before = FreshEngine
    /\ W_dog \in DOMAIN eng.inverted_index
    /\ "d2" \in PostingDocs(eng.inverted_index[W_dog])


\* the orders in which the results of a corpus may be folded
FoldOrders(items) ==
    LET n == Len(items)
        perms == {p \in [1..n -> 1..n] : \A i, j \in 1..n : p[i] = p[j] => i = j}
    IN  {[i \in 1..n |-> items[p[i]]] : p \in perms}

\* a dict of posting lists as Python compares it: without insertion order
PostingsAsMapping(inv) == [t \in DOMAIN inv |-> {inv[t][i] : i \in 1..Len(inv[t])}]

\* C25: for a corpus built on a fresh engine with any batch_size, the final
\* inverted_index, idf and document_index are what folding the documents'
\* results once each, in any order, gives.
C25_FoldIsOrderIndependent ==
    pc = "idle" /\ builds = 1 /\ outcome.op = "process_corpus" /\ outcome.status = "success" =>
        \A order \in FoldOrders(outcome.corpus) :
            LET pass1 == Pass1Fold(language, order, outcome.corpus_metadata, EmptyMap, EmptyMap)
            IN  /\ eng.document_index = pass1.document_index
                /\ eng.idf = ComputeIdf(EmptyMap, pass1.document_frequency, Len(order))
                /\ PostingsAsMapping(eng.inverted_index)
                      = PostingsAsMapping(Pass2Fold(language, order, EmptyMap))

C25_TwoBatchesFoldedReached ==
    /\ pc = "idle"
    /\ builds = 1
    /\ outcome.status = "success"
    /\ outcome.corpus = Corpus_rev
    /\ batch_size = 1
    /\ Cardinality(DOMAIN eng.inverted_index) >= 2


\* Pass 1 of the running build is complete: every document of the corpus has
\* been folded, the IDF table has an entry for every term of the corpus, and
\* idf.json holds that table
Pass1Finished ==
    /\ \A i \in 1..Len(frame.corpus_items) :
          /\ frame.corpus_items[i][1] \in DOMAIN eng.document_index
          /\ TermSet(TokensOf(frame.corpus_items, i)) \subseteq DOMAIN eng.idf
    /\ disk.idf_json.exists
    /\ disk.idf_json.idf = eng.idf

\* C26: Pass 2 does not start until Pass 1 has finished: a step of Pass 1
\* leaves inverted_index as it is, and a step of a build that changes
\* inverted_index is a step of Pass 2, taken when every batch of Pass 1 has
\* been folded, the IDF table is complete and idf.json has been written.
C26_Pass2AfterPass1 ==
    [][/\ pc = "pass1" => eng'.inverted_index = eng.inverted_index
       /\ pc # "idle" /\ eng'.inverted_index # eng.inverted_index =>
             pc = "pass2" /\ Pass1Finished]_vars

C26_FirstPostingsReached ==
    /\ pc = "pass2"
    /\ frame.batch_start >= 1
    /\ frame.batch_start < Len(frame.corpus_items)
    /\ DOMAIN eng.inverted_index # {}
    /\ disk.idf_json.idf = eng.idf
    /\ ~disk.index_pkl.exists


(***************************************************************************)
(* IndexingEngine.__init__: the number of worker processes                 *)
(***************************************************************************)
MaxCpus == 8
MaxWorkersArg == 2

\* a worker count taken from all the cores
NumWorkersOfAllCores(cpu_count, num_workers, use_cpu_percent) ==
    IF num_workers # 0 THEN num_workers
    ELSE Max2(1, (cpu_count * use_cpu_percent) \div 100)

\* lines 87-88: max_workers = max(1, cpu_count() - 2);
\* num_workers or max(1, int(max_workers * (use_cpu_percent / 100)));
\* num_workers = 0 stands for None and 0, which are both falsy
NumWorkers(cpu_count, num_workers, use_cpu_percent) ==
    LET max_workers == Max2(1, cpu_count - 2)
    IN  IF num_workers # 0 THEN num_workers
        ELSE Max2(1, (max_workers * use_cpu_percent) \div 100)

\* IndexingEngine(num_workers=..., use_cpu_percent=...) on a host with
\* cpu_count cores
ConfigureWorkers ==
    /\ reply = NoReply
    /\ \E cpu_count \in 1..MaxCpus, num_workers \in 0..MaxWorkersArg,
          use_cpu_percent \in 1..100 :
          reply' = [NoReply EXCEPT
                       !.kind = "workers",
                       !.stats = [cpu_count |-> cpu_count,
                                  num_workers_arg |-> num_workers,
                                  use_cpu_percent |-> use_cpu_percent,
                                  num_workers |-> NumWorkers(cpu_count, num_workers,
                                                             use_cpu_percent)]]
    /\ UNCHANGED <<engineVarsButReply, req, raw, normalized>>

NextWorkers == ConfigureWorkers

SpecWorkers == Init /\ [][NextWorkers]_vars

\* C27, as stated: the worker count is at least 1, and when it is derived
\* from the CPU fraction at least 2 cores stay free, for every cpu_count >= 1.
C27_TwoCoresReserved ==
    reply.kind = "workers" =>
        /\ reply.stats.num_workers >= 1
        /\ reply.stats.num_workers_arg = 0 =>
              reply.stats.cpu_count - reply.stats.num_workers >= 2

\* C27, amended: the worker count is at least 1; when it is derived from the
\* CPU fraction it is at most max(1, cpu_count - 2), so at least 2 cores stay
\* free on a host with 3 cores or more (with 1 or 2 cores one worker runs and
\* fewer than 2 cores stay free).
C27_TwoCoresReservedFromThreeCores ==
    reply.kind = "workers" =>
        /\ reply.stats.num_workers >= 1
        /\ reply.stats.num_workers_arg = 0 =>
              /\ reply.stats.num_workers <= Max2(1, reply.stats.cpu_count - 2)
              /\ reply.stats.cpu_count >= 3 =>
                    reply.stats.cpu_count - reply.stats.num_workers >= 2
              /\ reply.stats.cpu_count <= 2 => reply.stats.num_workers = 1

C27_AllAllowedCoresUsedReached ==
    /\ reply.kind = "workers"
    /\ reply.stats.num_workers_arg = 0
    /\ reply.stats.use_cpu_percent = 100
    /\ reply.stats.cpu_count = MaxCpus
    /\ reply.stats.num_workers = MaxCpus - 2


\* C28: a SearchEngine scores against one single completed snapshot: whenever
\* a search can run after process_corpus and load_index calls on the engine it
\* was constructed from, the postings, the IDF table and the document records
\* it reads are either all the engine's current ones or all the ones it was
\* left with, and its avgdl is the average length of the document records it
\* reads.
C28_SearchScoresOneSnapshot ==
    se.alive /\ pc = "idle" =>
        /\ se.shared \in {IndexAttrs, {}}
        /\ se.avgdl = CalculateAvgdl(SeAttr(se, eng, "document_index"))


\* the IDF table and the postings of engine e describe the same corpus
DescribesOneCorpus(e) ==
    /\ DOMAIN e.idf = DOMAIN e.inverted_index
    /\ \A t \in DOMAIN e.inverted_index :
          /\ e.inverted_index[t] # <<>>
          /\ t \in DOMAIN e.idf =>
                e.idf[t] = IdfValue(e.total_documents,
                                    Cardinality(PostingDocs(e.inverted_index[t])))
    /\ e.total_documents = Cardinality(DOMAIN e.document_index)
    /\ IndexStatistics(e).vocabulary_size = IndexStatistics(e).index_entries

\* C29: after a build on a fresh engine, and after loading that snapshot, idf
\* and inverted_index have the same keys, every posting list is non-empty,
\* idf(t) is computed from the length of t's posting list, total_documents is
\* the number of Document Records, and vocabulary_size equals index_entries in
\* the statistics and in the files written by the build.
C29_IdfAndPostingsDescribeOneCorpus ==
    builds = 1 =>
        /\ pc = "idle" /\ outcome.op = "process_corpus" /\ outcome.status = "success" =>
              /\ DescribesOneCorpus(eng)
              /\ disk.index_metadata_json.vocabulary_size
                    = disk.index_metadata_json.index_entries
              /\ disk.index_pkl.vocabulary_size
                    = Cardinality(DOMAIN disk.index_pkl.inverted_index)
        /\ outcome.op = "load_index" /\ outcome.status = "True" => DescribesOneCorpus(eng)
        /\ verify.done /\ verify.ok => DescribesOneCorpus(verify.eng)

C29_BuiltSnapshotLoadedReached ==
    /\ builds = 1
    /\ outcome.op = "load_index"
    /\ outcome.status = "True"
    /\ outcome.eng_before = FreshEngine
    /\ DOMAIN eng.idf = {W_cat, W_dog}
    /\ Len(eng.inverted_index[W_cat]) = 1
    /\ eng.total_documents = 2
    /\ disk.index_metadata_json.index_entries = 2


\* the steps of reload_system between clearing the globals and assigning them
ReloadInProgress == pc \in {"reload_cleared", "reload_load", "reload_swap"}

\* C30: a /search request with a non-empty query that is answered while
\* /api/reload runs, the snapshot served before being still loadable from the
\* disk, is answered with results of the old or of the reloaded snapshot: never
\* with HTTP 500 and never with "Index not loaded".
C30_SearchAnsweredDuringReload ==
    [][/\ ReloadInProgress
       /\ LoadIndexOn(FreshEngine, disk).ok
       /\ reply' # reply
       /\ reply'.kind = "endpoint"
       /\ Strip(reply'.query) # <<>>
       => reply'.status = "success"]_vars

=============================================================================
